---- MODULE Spec2Model ----
(***************************************************************************)
(* The simulation engine of c-dante/emerge: the stacked spatial store      *)
(* (things.tsx addThing/removeThing over a KdTreeMap), the controls        *)
(* (absorbWater, rootDown, condenseWater, rain), the tick driver           *)
(* (Sim.tsx advanceSim) and the snapshot codec (serializeState /           *)
(* deserializeState).                                                      *)
(*                                                                         *)
(* KdTreeMap is the third-party @thi.ng/geom-accel map; its code is not    *)
(* part of the repository.  It is modelled by the store contract of        *)
(* spec.md section 4.1: a map from grid position to a list, with get, set, *)
(* remove, a range query and an iteration over the entries.                *)
(***************************************************************************)
EXTENDS Integers, Sequences, FiniteSets, TLC

VARIABLES
    things,     \* SimState.things: the store, position -> list of thing ids
    tick,       \* SimState.tick
    thing,      \* the heap of Thing objects: id -> [type, pos, resources]
    pc,         \* "idle" between advanceSim calls, "iter" inside one
    pending,    \* advanceSim: cells the for-of loop has still to yield
    queue,      \* advanceSim: rest of the shuffled copy of the current cell
    cur,        \* advanceSim: the thing whose controls are running (0: none)
    ctrls,      \* advanceSim: controls of cur still to be invoked
    adds,       \* number of harness addThing calls so far
    startType,  \* history: id -> type, of the things in the store at tick start
    startWater, \* history: id -> Water count, of the same things at tick start
    runs,       \* history: id -> controls invoked on it in the current tick
    born,       \* history: ids created by a control in the current tick
    absorbed,   \* history: the absorptions of the current tick, in order
    condensed,  \* history: ticks at which condenseWater gathered water
    last,       \* history: the last operation and what it saw before acting
    loaded,     \* history: the world that went into the last snapshot round trip
    origin,     \* history: the thing a single-thing scenario started from
    saved,      \* Sim: the item SIM_STORAGE of sessionStorage
    intervalRate, \* Sim: the intervalRate state, in ms
    phase,      \* Sim: "mount" before the load effect ran, "running" after, "unmounted"
    firings,    \* history: timer firings since emptyState() made the world
    loadResult, \* history: how the load effect ended
    written,    \* history: TRUE once the timer handler has written the item
    timers,     \* the interval timers that are scheduled, by their ids
    timer,      \* Sim: the id the last run of the interval effect got (0: none)
    due         \* Sim: TRUE while the interval effect has still to run

hostVars == <<saved, intervalRate, phase, firings, loadResult, written,
              timers, timer, due>>

vars == <<things, tick, thing, pc, pending, queue, cur, ctrls, adds,
          startType, startWater, runs, born, absorbed, condensed, last, loaded,
          origin, saved, intervalRate, phase, firings, loadResult, written,
          timers, timer, due>>

----------------------------------------------------------------------------
(* Bounds of the model *)

MaxAdds == 3        \* harness addThing calls
MaxTick == 3        \* ticks explored from a harness-built world
MaxDelta == 2       \* largest delta the harness passes to advanceSim
MaxCloudTick == 34  \* ticks explored in the single-cloud scenarios
MaxWater == 12      \* largest Water counter a single-cloud scenario starts with
MaxFirings == 12    \* timer firings explored from the world emptyState makes
MaxLen == 5         \* longest text typed into the interval input
MaxDriverFirings == 2 \* timer firings explored while the interval input is in use
MaxSeedWater == 6   \* largest Water counter a single-seed scenario starts with

----------------------------------------------------------------------------
(* things.tsx: ThingType *)

Water == "Water"
Seed == "Seed"
Root == "Root"
Cloud == "Cloud"
RainCloud == "RainCloud"
ThingType == {Water, Seed, Root, Cloud, RainCloud}

NoRes == [r \in {} |-> 0]
OnlyWater(n) == [r \in {Water} |-> n]

\* things.tsx: baseThing and the factories water, seed, root, cloud
water(pos) == [type |-> Water, pos |-> pos, resources |-> NoRes]
seed(pos) == [type |-> Seed, pos |-> pos, resources |-> OnlyWater(0)]
root(pos) == [type |-> Root, pos |-> pos, resources |-> NoRes]
\* cloud() spells its initial counter "resource", so resources stays {}
cloud(pos) == [type |-> Cloud, pos |-> pos, resources |-> NoRes]

WithRes(t, n) == [t EXCEPT !.resources = OnlyWater(n)]
AsType(t, ty) == [t EXCEPT !.type = ty]

\* The things a harness (or emptyState) hands to addThing: the factories'
\* results, some with the Water counter or the type set before insertion.
Palette ==
    { water(<<0, 0>>), water(<<0, 1>>), water(<<0, 3>>),
      seed(<<0, 0>>), WithRes(seed(<<0, 0>>), 2),
      root(<<0, 1>>),
      WithRes(AsType(cloud(<<0, -1>>), RainCloud), 2) }

\* The clouds a single-cloud scenario starts from: cloud([0, -1]) as
\* emptyState makes it, or with a Water counter, as Cloud or as RainCloud
SkyPalette ==
    {AsType(c, ty) :
        c \in {cloud(<<0, -1>>)} \cup {WithRes(cloud(<<0, -1>>), n) : n \in 0..MaxWater},
        ty \in {Cloud, RainCloud}}

Harness == [type |-> "harness", pos |-> <<0, 0>>, resources |-> NoRes]

----------------------------------------------------------------------------
(* The values of a JavaScript number that the engine meets and that are no *)
(* integer: a field that is not there reads as undefined, and arithmetic   *)
(* on undefined gives NaN.  Both are told from every tick and count.       *)

Undefined == -1
NaN == -2

\* a + b
Plus(a, b) == IF a \in {Undefined, NaN} THEN NaN ELSE a + b

\* a % b
Rem(a, b) == IF a \in {Undefined, NaN} THEN NaN ELSE a % b

----------------------------------------------------------------------------
(* things.tsx: getRes, mathRes *)

getRes(t, resType) ==
    IF resType \in DOMAIN t.resources THEN t.resources[resType] ELSE 0

\* mathRes that adds the value twice
mathResDoubles(t, resType, value) ==
    [t EXCEPT !.resources =
        [r \in (DOMAIN t.resources) \cup {resType} |->
            IF r = resType THEN getRes(t, resType) + 2 * value ELSE t.resources[r]]]

mathRes(t, resType, value) ==
    [t EXCEPT !.resources =
        [r \in (DOMAIN t.resources) \cup {resType} |->
            IF r = resType THEN getRes(t, resType) + value ELSE t.resources[r]]]

----------------------------------------------------------------------------
(* KdTreeMap, by its contract *)

EmptyMap == [k \in {} |-> <<>>]

KdHas(m, key) == key \in DOMAIN m

\* get(key): only evaluated where the value is defined; KdHas tells undefined
KdGet(m, key) == m[key]

KdSet(m, key, val) ==
    [k \in (DOMAIN m) \cup {key} |-> IF k = key THEN val ELSE m[k]]

KdRemove(m, key) == [k \in (DOMAIN m) \ {key} |-> m[k]]

----------------------------------------------------------------------------
(* things.tsx: the helpers of the stacked map *)

\* existing.push(thing) changes the list the map holds, in place
addThing(id, heap, m) ==
    IF KdHas(m, heap[id].pos)
    THEN KdSet(m, heap[id].pos, Append(KdGet(m, heap[id].pos), id))
    ELSE KdSet(m, heap[id].pos, <<id>>)

\* removeThing without the branch that deletes the emptied cell
removeThingKeepsCell(id, heap, m) ==
    LET got == IF KdHas(m, heap[id].pos) THEN KdGet(m, heap[id].pos) ELSE <<>>
    IN  KdSet(m, heap[id].pos, SelectSeq(got, LAMBDA x : x # id))

\* removeThing that deletes the cell when the thing is not in its list
removeThingDropsCell(id, heap, m) ==
    LET got == IF KdHas(m, heap[id].pos) THEN KdGet(m, heap[id].pos) ELSE <<>>
        remaining == SelectSeq(got, LAMBDA x : x # id)
    IN  IF Len(remaining) > 0 /\ Len(remaining) < Len(got)
        THEN KdSet(m, heap[id].pos, remaining)
        ELSE KdRemove(m, heap[id].pos)

removeThing(id, heap, m) ==
    LET got == IF KdHas(m, heap[id].pos) THEN KdGet(m, heap[id].pos) ELSE <<>>
        remaining == SelectSeq(got, LAMBDA x : x # id)
    IN  IF Len(remaining) > 0
        THEN KdSet(m, heap[id].pos, remaining)
        ELSE KdRemove(m, heap[id].pos)

----------------------------------------------------------------------------
(* Helpers over the state *)

Range(s) == {s[i] : i \in DOMAIN s}

InStore(m) == UNION {Range(m[k]) : k \in DOMAIN m}

NewId(heap) == Len(heap) + 1

WaterCount(m, heap) ==
    Cardinality({id \in InStore(m) : heap[id].type = Water})

NoLast == [op |-> "none", self |-> 0, res0 |-> 0, waters0 |-> 0]

\* What a world holds, thing by thing, whatever the identity of the things
View(m, heap) == [k \in DOMAIN m |-> [j \in 1..Len(m[k]) |-> heap[m[k][j]]]]

NoLoad == [tick |-> -1, view |-> EmptyMap]

\* sessionStorage.getItem gives null when there is no item
NoItem == [kind |-> "null", fields |-> {}, tick |-> Undefined, things |-> <<>>]

----------------------------------------------------------------------------
(* Sim.tsx: emptyState starts from new KdTreeMap(2) and tick 0 *)

Init ==
    /\ things = EmptyMap
    /\ tick = 0
    /\ thing = <<>>
    /\ pc = "idle"
    /\ pending = {}
    /\ queue = <<>>
    /\ cur = 0
    /\ ctrls = <<>>
    /\ adds = 0
    /\ startType = <<>>
    /\ startWater = <<>>
    /\ runs = <<>>
    /\ born = {}
    /\ absorbed = <<>>
    /\ condensed = <<>>
    /\ last = NoLast
    /\ loaded = NoLoad
    /\ origin = Harness
    /\ saved = NoItem
    /\ intervalRate = 1000
    /\ phase = "off"
    /\ firings = 0
    /\ loadResult = "none"
    /\ written = FALSE
    /\ timers = {}
    /\ timer = 0
    /\ due = FALSE

\* The world of one cloud at (0, -1) and tick 0
InitCloud ==
    /\ \E c \in SkyPalette :
        /\ thing = <<c>>
        /\ things = addThing(1, <<c>>, EmptyMap)
        /\ origin = c
    /\ tick = 0
    /\ pc = "idle"
    /\ pending = {}
    /\ queue = <<>>
    /\ cur = 0
    /\ ctrls = <<>>
    /\ adds = 1
    /\ startType = <<>>
    /\ startWater = <<>>
    /\ runs = <<>>
    /\ born = {}
    /\ absorbed = <<>>
    /\ condensed = <<>>
    /\ last = NoLast
    /\ loaded = NoLoad
    /\ saved = NoItem
    /\ intervalRate = 1000
    /\ phase = "running"
    /\ firings = 0
    /\ loadResult = "none"
    /\ written = FALSE
    /\ timers = {1}
    /\ timer = 1
    /\ due = FALSE

\* A harness (as emptyState does) builds the world: it inserts a freshly made
\* thing
AddThing ==
    /\ pc = "idle"
    /\ tick = 0
    /\ adds < MaxAdds
    /\ \E t \in Palette :
        /\ thing' = Append(thing, t)
        /\ things' = addThing(NewId(thing), thing', things)
        /\ last' = [NoLast EXCEPT !.op = "addThing", !.self = NewId(thing)]
    /\ adds' = adds + 1
    /\ UNCHANGED <<tick, pc, pending, queue, cur, ctrls,
                   startType, startWater, runs, born, absorbed, condensed, loaded, origin>>
    /\ UNCHANGED hostVars

\* A harness calls removeThing on any thing it holds, stored or not
RemoveThing ==
    /\ pc = "idle"
    /\ tick = 0
    /\ \E id \in DOMAIN thing :
        /\ things' = removeThing(id, thing, things)
        /\ last' = [NoLast EXCEPT !.op = "removeThing", !.self = id,
                                  !.waters0 = WaterCount(things, thing)]
    /\ UNCHANGED <<tick, thing, pc, pending, queue, cur, ctrls, adds,
                   startType, startWater, runs, born, absorbed, condensed, loaded, origin>>
    /\ UNCHANGED hostVars

----------------------------------------------------------------------------
(* things.tsx: FixedControls *)

\* a control table in which a RainCloud condenses as well
fixedControlsRainCloudGathers(type) ==
    CASE type = Seed -> <<"absorbWater", "rootDown">>
      [] type = Root -> <<"absorbWater">>
      [] type = Cloud -> <<"condenseWater">>
      [] type = RainCloud -> <<"rain", "condenseWater">>
      [] OTHER -> <<>>

\* a control table in which a Seed roots before it absorbs
fixedControlsSeedRootsFirst(type) ==
    CASE type = Seed -> <<"rootDown", "absorbWater">>
      [] type = Root -> <<"absorbWater">>
      [] type = Cloud -> <<"condenseWater">>
      [] type = RainCloud -> <<"rain">>
      [] OTHER -> <<>>

\* a control table in which a Cloud rains after it has condensed
fixedControlsCloudRains(type) ==
    CASE type = Seed -> <<"absorbWater", "rootDown">>
      [] type = Root -> <<"absorbWater">>
      [] type = Cloud -> <<"condenseWater", "rain">>
      [] type = RainCloud -> <<"rain">>
      [] OTHER -> <<>>

FixedControls(type) ==
    CASE type = Seed -> <<"absorbWater", "rootDown">>
      [] type = Root -> <<"absorbWater">>
      [] type = Cloud -> <<"condenseWater">>
      [] type = RainCloud -> <<"rain">>
      [] OTHER -> <<>>

----------------------------------------------------------------------------
(* Sim.tsx: advanceSim *)

\* The orders in which a list can be laid out
Perms(list) ==
    {p \in [1..Len(list) -> Range(list)] :
        \A i, j \in 1..Len(list) : i # j => p[i] # p[j]}

\* a shuffle that loses the last thing of the list
shuffleLosesLast(list, heap) ==
    LET live == SelectSeq(list, LAMBDA id : FixedControls(heap[id].type) # <<>>)
    IN  Perms(SubSeq(live, 1, Len(live) - 1))

\* fp.shuffle(things): a new array in some order.  Things whose type has no
\* controls are left out of it: their forEach body is empty.
Shuffle(list, heap) ==
    Perms(SelectSeq(list, LAMBDA id : FixedControls(heap[id].type) # <<>>))

Deltas == 1..MaxDelta

\* advanceSim that adds delta twice
advanceTwice(delta) ==
    /\ pc = "idle"
    /\ tick' = Plus(tick, 2 * delta)
    /\ pc' = "iter"
    /\ pending' = DOMAIN things
    /\ startType' = [id \in InStore(things) |-> thing[id].type]
    /\ startWater' = [id \in InStore(things) |-> getRes(thing[id], Water)]
    /\ runs' = [id \in InStore(things) |-> <<>>]
    /\ born' = {}
    /\ absorbed' = <<>>
    /\ last' = NoLast
    /\ loaded' = NoLoad
    /\ UNCHANGED <<things, thing, queue, cur, ctrls, adds, condensed, origin>>

\* state.tick += delta; the for-of loop starts over the store's cells
Advance(delta) ==
    /\ pc = "idle"
    /\ tick' = Plus(tick, delta)
    /\ pc' = "iter"
    /\ pending' = DOMAIN things
    /\ startType' = [id \in InStore(things) |-> thing[id].type]
    /\ startWater' = [id \in InStore(things) |-> getRes(thing[id], Water)]
    /\ runs' = [id \in InStore(things) |-> <<>>]
    /\ born' = {}
    /\ absorbed' = <<>>
    /\ last' = NoLast
    /\ loaded' = NoLoad
    /\ UNCHANGED <<things, thing, queue, cur, ctrls, adds, condensed, origin>>

\* A harness calls advanceSim(state, delta)
TickStart ==
    /\ \E delta \in Deltas :
        /\ tick + delta <= MaxTick
        /\ Advance(delta)
    /\ UNCHANGED hostVars

\* An interval timer of Sim that is scheduled fires: its handler calls
\* advanceSim(sim.current, 1)
DriverTick ==
    /\ timers # {}
    /\ firings < (IF origin = Harness THEN MaxFirings ELSE MaxCloudTick)
    /\ Advance(1)
    /\ firings' = firings + 1
    /\ UNCHANGED <<saved, intervalRate, phase, loadResult, written, timers, timer, due>>

Between == pc = "iter" /\ ctrls = <<>> /\ queue = <<>>

\* The loop yields the next cell; its list is read and shuffled now
VisitCell ==
    /\ Between
    /\ \E k \in pending :
        /\ pending' = pending \ {k}
        /\ queue' \in Shuffle(KdGet(things, k), thing)
    /\ cur' = 0
    /\ UNCHANGED <<things, tick, thing, pc, ctrls, adds,
                   startType, startWater, runs, born, absorbed, condensed, last, loaded, origin>>
    /\ UNCHANGED hostVars

\* forEach takes the next thing; its control list is looked up by its type now
NextThing ==
    /\ pc = "iter"
    /\ ctrls = <<>>
    /\ queue # <<>>
    /\ cur' = Head(queue)
    /\ queue' = Tail(queue)
    /\ ctrls' = FixedControls(thing[Head(queue)].type)
    /\ UNCHANGED <<things, tick, thing, pc, pending, adds,
                   startType, startWater, runs, born, absorbed, condensed, last, loaded, origin>>
    /\ UNCHANGED hostVars

\* The loop is over: advanceSim returns the state
TickEnd ==
    /\ Between
    /\ pending = {}
    /\ pc' = "idle"
    /\ cur' = 0
    /\ UNCHANGED <<things, tick, thing, pending, queue, ctrls, adds,
                   startType, startWater, runs, born, absorbed, condensed, last, loaded, origin>>
    /\ UNCHANGED hostVars

Invoking(ctrl) == pc = "iter" /\ ctrls # <<>> /\ Head(ctrls) = ctrl

Ran(ctrl) ==
    [id \in (DOMAIN runs) \cup {cur} |->
        IF id = cur
        THEN Append(IF cur \in DOMAIN runs THEN runs[cur] ELSE <<>>, ctrl)
        ELSE runs[id]]

Saw(ctrl) ==
    [op |-> ctrl, self |-> cur, res0 |-> getRes(thing[cur], Water),
     waters0 |-> WaterCount(things, thing)]

----------------------------------------------------------------------------
(* KdTreeMap.queryValues, by the range query of the store contract *)

Abs(n) == IF n < 0 THEN -n ELSE n

\* grid distance between two cells
Dist(p, q) ==
    IF Abs(p[1] - q[1]) > Abs(p[2] - q[2])
    THEN Abs(p[1] - q[1]) ELSE Abs(p[2] - q[2])

SetPerms(S) ==
    {p \in [1..Cardinality(S) -> S] :
        \A i, j \in 1..Cardinality(S) : i # j => p[i] # p[j]}

\* The results a query may give: the lists of at most `limit` of the cells
\* within maxDist of q, in an order the store chooses
QueryValues(m, q, maxDist, limit) ==
    LET near == {k \in DOMAIN m : Dist(k, q) <= maxDist}
        n == IF Cardinality(near) < limit THEN Cardinality(near) ELSE limit
    IN  UNION {{[i \in 1..n |-> m[p[i]]] : p \in SetPerms(S)} :
                  S \in {T \in SUBSET near : Cardinality(T) = n}}

RECURSIVE Flat(_)
Flat(lists) ==
    IF lists = <<>> THEN <<>> ELSE Head(lists) \o Flat(Tail(lists))

\* Array.find for x.type === type: the first such thing, 0 for undefined
RECURSIVE FindType(_, _, _)
FindType(list, heap, type) ==
    IF list = <<>> THEN 0
    ELSE IF heap[Head(list)].type = type THEN Head(list)
    ELSE FindType(Tail(list), heap, type)

----------------------------------------------------------------------------
(* things.tsx: the controls.  Each gives the heap and the store it leaves. *)

DISTANCE == 2
MAX_CELLS == (DISTANCE - 1) * 9
GATHER_PERIOD == 3
GATHER_AMOUNT == 5
RAIN_THRESHOLD == 10
MAX_DROPS == 4
ROOT_THRESHOLD == 2
ROOT_COST == 2

\* absorbWater without the removeThing call
absorbWaterKeepsWater(self, heap, m, found) ==
    IF FindType(Flat(found), heap, Water) # 0
    THEN [things |-> m, thing |-> [heap EXCEPT ![self] = mathRes(@, Water, 1)]]
    ELSE [things |-> m, thing |-> heap]

\* absorbWater that takes a Water from anywhere in the store
absorbWaterAnywhere(self, heap, m, found) ==
    LET waters == {id \in InStore(m) : heap[id].type = Water} IN
    IF waters # {}
    THEN [things |-> removeThing(CHOOSE id \in waters : TRUE, heap, m),
          thing |-> [heap EXCEPT ![self] = mathRes(@, Water, 1)]]
    ELSE [things |-> m, thing |-> heap]

absorbWater(self, heap, m, found) ==
    LET nearestWater == FindType(Flat(found), heap, Water) IN
    IF nearestWater # 0
    THEN [things |-> removeThing(nearestWater, heap, m),
          thing |-> [heap EXCEPT ![self] = mathRes(@, Water, 1)]]
    ELSE [things |-> m, thing |-> heap]

\* rootDown that grows a root with 2 Water already
rootDownAtTwo(self, heap, m) ==
    IF getRes(heap[self], Water) >= ROOT_THRESHOLD
    THEN LET newRoot == root(<<heap[self].pos[1], heap[self].pos[2] + 1>>)
             grown == Append(heap, newRoot)
         IN  [things |-> addThing(NewId(heap), grown, m),
              thing |-> [grown EXCEPT ![self] = mathRes(@, Water, -ROOT_COST)]]
    ELSE [things |-> m, thing |-> heap]

\* rootDown that spends 3 Water on a root
rootDownSpendsThree(self, heap, m) ==
    IF getRes(heap[self], Water) > ROOT_THRESHOLD
    THEN LET newRoot == root(<<heap[self].pos[1], heap[self].pos[2] + 1>>)
             grown == Append(heap, newRoot)
         IN  [things |-> addThing(NewId(heap), grown, m),
              thing |-> [grown EXCEPT ![self] = mathRes(@, Water, -3)]]
    ELSE [things |-> m, thing |-> heap]

\* rootDown that grows a root only with more than 3 Water
rootDownAboveThree(self, heap, m) ==
    IF getRes(heap[self], Water) > 3
    THEN LET newRoot == root(<<heap[self].pos[1], heap[self].pos[2] + 1>>)
             grown == Append(heap, newRoot)
         IN  [things |-> addThing(NewId(heap), grown, m),
              thing |-> [grown EXCEPT ![self] = mathRes(@, Water, -ROOT_COST)]]
    ELSE [things |-> m, thing |-> heap]

rootDown(self, heap, m) ==
    IF getRes(heap[self], Water) > ROOT_THRESHOLD
    THEN LET newRoot == root(<<heap[self].pos[1], heap[self].pos[2] + 1>>)
             grown == Append(heap, newRoot)
         IN  [things |-> addThing(NewId(heap), grown, m),
              thing |-> [grown EXCEPT ![self] = mathRes(@, Water, -ROOT_COST)]]
    ELSE [things |-> m, thing |-> heap]

\* condenseWater that becomes a rain cloud at the threshold already
condenseWaterAtThreshold(self, heap, now) ==
    LET gathered == IF Rem(now, GATHER_PERIOD) = 0
                    THEN [heap EXCEPT ![self] = mathRes(@, Water, GATHER_AMOUNT)]
                    ELSE heap
    IN  IF getRes(gathered[self], Water) >= RAIN_THRESHOLD
        THEN [gathered EXCEPT ![self].type = RainCloud]
        ELSE gathered

\* condenseWater that gathers on every tick
condenseWaterEveryTick(self, heap, now) ==
    LET gathered == [heap EXCEPT ![self] = mathRes(@, Water, GATHER_AMOUNT)]
    IN  IF getRes(gathered[self], Water) > RAIN_THRESHOLD
        THEN [gathered EXCEPT ![self].type = RainCloud]
        ELSE gathered

\* condenseWater that empties the resources of the thing it turns into a
\* rain cloud
condenseWaterResets(self, heap, now) ==
    LET gathered == IF Rem(now, GATHER_PERIOD) = 0
                    THEN [heap EXCEPT ![self] = mathRes(@, Water, GATHER_AMOUNT)]
                    ELSE heap
    IN  IF getRes(gathered[self], Water) > RAIN_THRESHOLD
        THEN [gathered EXCEPT ![self].type = RainCloud, ![self].resources = NoRes]
        ELSE gathered

\* condenseWater that compares with the threshold before it gathers
condenseWaterChecksFirst(self, heap, now) ==
    LET turned == IF getRes(heap[self], Water) > RAIN_THRESHOLD
                  THEN [heap EXCEPT ![self].type = RainCloud]
                  ELSE heap
    IN  IF Rem(now, GATHER_PERIOD) = 0
        THEN [turned EXCEPT ![self] = mathRes(@, Water, GATHER_AMOUNT)]
        ELSE turned

condenseWater(self, heap, now) ==
    LET gathered == IF Rem(now, GATHER_PERIOD) = 0
                    THEN [heap EXCEPT ![self] = mathRes(@, Water, GATHER_AMOUNT)]
                    ELSE heap
    IN  IF getRes(gathered[self], Water) > RAIN_THRESHOLD
        THEN [gathered EXCEPT ![self].type = RainCloud]
        ELSE gathered

\* the while loop of rain
RECURSIVE rainLoop(_, _, _, _)
rainLoop(maxDrops, self, heap, m) ==
    IF maxDrops > 0 /\ getRes(heap[self], Water) > 0
    THEN LET newWater == water(<<heap[self].pos[1], heap[self].pos[2]>>)
             wet == Append(heap, newWater)
         IN  rainLoop(maxDrops - 1, self,
                      [wet EXCEPT ![self] = mathRes(@, Water, -1)],
                      addThing(NewId(heap), wet, m))
    ELSE [things |-> m, thing |-> heap]

\* rain that lets its 4 drops fall whatever the Water count
rainFourDropsAlways(self, heap, m) ==
    LET RECURSIVE drops(_, _, _)
        drops(left, h, s) ==
            IF left > 0
            THEN LET wet == Append(h, water(<<h[self].pos[1], h[self].pos[2]>>))
                 IN  drops(left - 1, [wet EXCEPT ![self] = mathRes(@, Water, -1)],
                           addThing(NewId(h), wet, s))
            ELSE [things |-> s, thing |-> h]
        after == drops(MAX_DROPS, heap, m)
    IN  IF Water \in DOMAIN after.thing[self].resources
           /\ after.thing[self].resources[Water] = 0
        THEN [after EXCEPT !.thing[self].type = Cloud]
        ELSE after

\* rain that lets one more drop fall, which it does not take from its count
rainUncountedDrop(self, heap, m) ==
    LET after == rainLoop(MAX_DROPS, self, heap, m)
        wet == Append(after.thing, water(<<heap[self].pos[1], heap[self].pos[2]>>))
        spilt == [things |-> addThing(NewId(after.thing), wet, after.things),
                  thing |-> wet]
    IN  IF Water \in DOMAIN spilt.thing[self].resources
           /\ spilt.thing[self].resources[Water] = 0
        THEN [spilt EXCEPT !.thing[self].type = Cloud]
        ELSE spilt

\* rain that lets one drop more fall
rainOneDropMore(self, heap, m) ==
    LET after == rainLoop(MAX_DROPS + 1, self, heap, m) IN
    IF Water \in DOMAIN after.thing[self].resources
       /\ after.thing[self].resources[Water] = 0
    THEN [after EXCEPT !.thing[self].type = Cloud]
    ELSE after

rain(self, heap, m) ==
    LET after == rainLoop(MAX_DROPS, self, heap, m) IN
    IF Water \in DOMAIN after.thing[self].resources
       /\ after.thing[self].resources[Water] = 0
    THEN [after EXCEPT !.thing[self].type = Cloud]
    ELSE after

----------------------------------------------------------------------------
(* advanceSim: ctrl(thing, state, delta) for each control of the list *)

AbsorbWater ==
    /\ Invoking("absorbWater")
    /\ \E found \in QueryValues(things, thing[cur].pos, DISTANCE, MAX_CELLS) :
        LET after == absorbWater(cur, thing, things, found) IN
        /\ things' = after.things
        /\ thing' = after.thing
        /\ absorbed' =
              IF after.things = things /\ after.thing = thing THEN absorbed
              ELSE Append(absorbed,
                     [by |-> cur,
                      gain |-> getRes(after.thing[cur], Water) - getRes(thing[cur], Water),
                      gone |-> InStore(things) \ InStore(after.things)])
        /\ pending' = pending \cap DOMAIN after.things
    /\ ctrls' = Tail(ctrls)
    /\ runs' = Ran("absorbWater")
    /\ last' = Saw("absorbWater")
    /\ UNCHANGED <<tick, pc, queue, cur, adds, startType, startWater, born, condensed, loaded, origin>>
    /\ UNCHANGED hostVars

\* A cell made while the loop runs may or may not be yielded by it later
RootDown ==
    /\ Invoking("rootDown")
    /\ LET after == rootDown(cur, thing, things) IN
        /\ things' = after.things
        /\ thing' = after.thing
        /\ born' = born \cup ((DOMAIN after.thing) \ (DOMAIN thing))
        /\ \E yielded \in SUBSET ((DOMAIN after.things) \ (DOMAIN things)) :
              pending' = pending \cup yielded
    /\ ctrls' = Tail(ctrls)
    /\ runs' = Ran("rootDown")
    /\ last' = Saw("rootDown")
    /\ UNCHANGED <<tick, pc, queue, cur, adds, startType, startWater, absorbed, condensed, loaded, origin>>
    /\ UNCHANGED hostVars

CondenseWater ==
    /\ Invoking("condenseWater")
    /\ thing' = condenseWater(cur, thing, tick)
    /\ condensed' = IF getRes(thing'[cur], Water) # getRes(thing[cur], Water)
                    THEN Append(condensed, tick) ELSE condensed
    /\ ctrls' = Tail(ctrls)
    /\ runs' = Ran("condenseWater")
    /\ last' = Saw("condenseWater")
    /\ UNCHANGED <<things, tick, pc, pending, queue, cur, adds,
                   startType, startWater, born, absorbed, loaded, origin>>
    /\ UNCHANGED hostVars

Rain ==
    /\ Invoking("rain")
    /\ LET after == rain(cur, thing, things) IN
        /\ things' = after.things
        /\ thing' = after.thing
        /\ born' = born \cup ((DOMAIN after.thing) \ (DOMAIN thing))
    /\ ctrls' = Tail(ctrls)
    /\ runs' = Ran("rain")
    /\ last' = Saw("rain")
    /\ UNCHANGED <<tick, pc, pending, queue, cur, adds,
                   startType, startWater, absorbed, condensed, loaded, origin>>
    /\ UNCHANGED hostVars

----------------------------------------------------------------------------
(* Sim.tsx: serializeState, deserializeState *)

\* What JSON.stringify writes for a number that is no integer: null for NaN
Null == -3

\* A text is what sessionStorage holds: no item (null), a text that is no
\* JSON, or the JSON of an object with the fields named in `fields`
Garbage == [kind |-> "text", fields |-> {}, tick |-> Undefined, things |-> <<>>]

\* JSON.stringify({...state, things: [...state.things]}): the tick, and the
\* entries in the order the map yields them, every thing written out by value.
\* A field whose value is undefined is left out.
serializeState(state, order) ==
    [kind |-> "json",
     fields |-> IF state.tick = Undefined THEN {"things"} ELSE {"tick", "things"},
     tick |-> IF state.tick = NaN THEN Null ELSE state.tick,
     things |-> [i \in 1..Len(order) |->
                   <<order[i],
                     [j \in 1..Len(state.things[order[i]]) |->
                        state.thing[state.things[order[i]][j]]]>>]]

\* new KdTreeMap(2, pairs): set(key, list) pair after pair; the things parsed
\* from the text are new objects
RECURSIVE into(_, _, _)
into(pairs, m, heap) ==
    IF pairs = <<>> THEN [things |-> m, thing |-> heap]
    ELSE LET key == Head(pairs)[1]
             list == Head(pairs)[2]
         IN  into(Tail(pairs),
                  KdSet(m, key, [j \in 1..Len(list) |-> Len(heap) + j]),
                  heap \o list)

\* JSON.parse throws on a text that is no JSON
Threw == [threw |-> TRUE, tick |-> Undefined, things |-> EmptyMap, thing |-> <<>>]

\* deserializeState that reads no tick
deserializeStateNoTick(serialized) ==
    IF serialized.kind # "json" THEN Threw
    ELSE LET interThings == IF "things" \in serialized.fields
                            THEN serialized.things ELSE <<>>
             built == into(interThings, EmptyMap, <<>>)
         IN  [threw |-> FALSE, tick |-> 0,
              things |-> built.things, thing |-> built.thing]

\* deserializeState that makes an empty world of a text that is no JSON
deserializeStateLenient(serialized) ==
    LET interThings == IF "things" \in serialized.fields
                       THEN serialized.things ELSE <<>>
        built == into(interThings, EmptyMap, <<>>)
    IN  [threw |-> FALSE,
         tick |-> IF "tick" \in serialized.fields THEN serialized.tick ELSE Undefined,
         things |-> built.things, thing |-> built.thing]

\* intermediate.things and intermediate.tick are read as they are: a field
\* that is missing reads as undefined, and new KdTreeMap(2, undefined) is the
\* empty map that new KdTreeMap(2) of emptyState is
deserializeState(serialized) ==
    IF serialized.kind # "json" THEN Threw
    ELSE LET interThings == IF "things" \in serialized.fields
                            THEN serialized.things ELSE <<>>
             built == into(interThings, EmptyMap, <<>>)
         IN  [threw |-> FALSE,
              tick |-> IF "tick" \in serialized.fields THEN serialized.tick ELSE Undefined,
              things |-> built.things, thing |-> built.thing]

\* A harness saves the world and loads it back, as Sim does through
\* sessionStorage
RoundTrip ==
    /\ pc = "idle"
    /\ last.op # "roundTrip"
    /\ \E order \in SetPerms(DOMAIN things) :
        LET state == [tick |-> tick, things |-> things, thing |-> thing]
            back == deserializeState(serializeState(state, order))
        IN  /\ tick' = back.tick
            /\ things' = back.things
            /\ thing' = back.thing
    /\ loaded' = [tick |-> tick, view |-> View(things, thing)]
    /\ last' = [NoLast EXCEPT !.op = "roundTrip"]
    /\ startType' = <<>>
    /\ startWater' = <<>>
    /\ runs' = <<>>
    /\ born' = {}
    /\ absorbed' = <<>>
    /\ UNCHANGED <<pc, pending, queue, cur, ctrls, adds, condensed, origin>>
    /\ UNCHANGED hostVars

----------------------------------------------------------------------------
(* Sim.tsx: the Sim component *)

DEFAULT_RATE == 1000
MIN_RATE == 10
MAX_RATE == 10000
SAVE_PERIOD == 10

\* emptyState: five water(), a seed() and cloud([0, -1]) reduced with addThing
emptyThings ==
    << water(<<0, 0>>), water(<<0, 0>>), water(<<0, 0>>), water(<<0, 0>>),
       water(<<0, 0>>), seed(<<0, 0>>), cloud(<<0, -1>>) >>

RECURSIVE reduce(_, _, _)
reduce(i, heap, m) ==
    IF i > Len(heap) THEN m ELSE reduce(i + 1, heap, addThing(i, heap, m))

emptyState ==
    [tick |-> 0, thing |-> emptyThings, things |-> reduce(1, emptyThings, EmptyMap)]

\* The snapshot of a world of one thing
Snapshot(t, c) ==
    serializeState([tick |-> t, thing |-> <<c>>,
                    things |-> addThing(1, <<c>>, EmptyMap)], <<c.pos>>)

Without(text, field) == [text EXCEPT !.fields = @ \ {field}]

\* What sessionStorage may hold when Sim mounts: nothing, a text that is no
\* JSON, a snapshot, a snapshot without its tick, a snapshot without its things
SavedAtMount ==
    { NoItem, Garbage,
      Snapshot(8, WithRes(cloud(<<0, -1>>), 10)),
      Without(Snapshot(8, WithRes(cloud(<<0, -1>>), 10)), "tick"),
      Without(Snapshot(8, WithRes(cloud(<<0, -1>>), 10)), "things") }

\* useRef(emptyState()), useState(1000): Sim before its effects have run
InitHost ==
    /\ tick = emptyState.tick
    /\ thing = emptyState.thing
    /\ things = emptyState.things
    /\ pc = "idle"
    /\ pending = {}
    /\ queue = <<>>
    /\ cur = 0
    /\ ctrls = <<>>
    /\ adds = Len(emptyThings)
    /\ startType = <<>>
    /\ startWater = <<>>
    /\ runs = <<>>
    /\ born = {}
    /\ absorbed = <<>>
    /\ condensed = <<>>
    /\ last = NoLast
    /\ loaded = NoLoad
    /\ origin = Harness
    /\ saved \in SavedAtMount
    /\ intervalRate = DEFAULT_RATE
    /\ phase = "mount"
    /\ firings = 0
    /\ loadResult = "none"
    /\ written = FALSE
    /\ timers = {}
    /\ timer = 0
    /\ due = TRUE

\* The load effect: the item, if there is one, is deserialized into
\* sim.current; an error thrown on the way is caught and logged
LoadEffect ==
    /\ phase = "mount"
    /\ phase' = "running"
    /\ IF saved.kind = "null"
       THEN /\ loadResult' = "absent"
            /\ UNCHANGED <<tick, things, thing>>
       ELSE LET got == deserializeState(saved) IN
            IF got.threw
            THEN /\ loadResult' = "failed"
                 /\ UNCHANGED <<tick, things, thing>>
            ELSE /\ loadResult' = "loaded"
                 /\ tick' = got.tick
                 /\ things' = got.things
                 /\ thing' = got.thing
    /\ UNCHANGED <<pc, pending, queue, cur, ctrls, adds, startType, startWater, runs, born,
                   absorbed, condensed, last, loaded, origin,
                   saved, intervalRate, firings, written, timers, timer, due>>

\* resetSim: sim.current = emptyState()
ResetSim ==
    /\ phase = "running"
    /\ pc = "idle"
    /\ tick' = emptyState.tick
    /\ thing' = emptyState.thing
    /\ things' = emptyState.things
    /\ firings' = 0
    /\ loadResult' = "reset"
    /\ startType' = <<>>
    /\ startWater' = <<>>
    /\ runs' = <<>>
    /\ born' = {}
    /\ absorbed' = <<>>
    /\ condensed' = <<>>
    /\ last' = NoLast
    /\ UNCHANGED <<pc, pending, queue, cur, ctrls, adds, loaded, origin,
                   saved, intervalRate, phase, written, timers, timer, due>>

\* a host that saves on every fifth tick
saveDueEveryFive(t) == Rem(t, 5) = 0

\* sim.current.tick % 10 === 0
saveDue(t) == Rem(t, SAVE_PERIOD) = 0

\* The rest of the timer handler, after advanceSim has returned: the item is
\* written when the tick is a multiple of 10
TimerEnd ==
    /\ phase = "running"
    /\ Between
    /\ pending = {}
    /\ pc' = "idle"
    /\ cur' = 0
    /\ IF saveDue(tick)
       THEN /\ \E order \in SetPerms(DOMAIN things) :
                 saved' = serializeState(
                     [tick |-> tick, things |-> things, thing |-> thing], order)
            /\ written' = TRUE
       ELSE UNCHANGED <<saved, written>>
    /\ UNCHANGED <<things, tick, thing, pending, queue, ctrls, adds,
                   startType, startWater, runs, born, absorbed, condensed, last, loaded, origin,
                   intervalRate, phase, firings, loadResult, timers, timer, due>>

\* Number(text) of the text typed into the input: the empty text is 0, a text
\* of decimal digits is its value, any other text is NaN
Alphabet == {"0", "1", "5", "x"}

Texts == UNION {[1..n -> Alphabet] : n \in 0..MaxLen}

Digit(c) == CASE c = "0" -> 0 [] c = "1" -> 1 [] c = "5" -> 5

RECURSIVE Value(_)
Value(str) ==
    IF str = <<>> THEN 0
    ELSE 10 * Value(SubSeq(str, 1, Len(str) - 1)) + Digit(str[Len(str)])

Number(str) ==
    IF \E i \in DOMAIN str : str[i] \notin {"0", "1", "5"} THEN NaN ELSE Value(str)

isNaN(n) == n \in {Undefined, NaN}

Max(a, b) == IF a > b THEN a ELSE b

Min(a, b) == IF a < b THEN a ELSE b

\* a clamp without its lower end
clampFromAbove(interval) == Min(interval, MAX_RATE)

\* Math.min(Math.max(10, interval), 10000)
clamp(interval) == Min(Max(MIN_RATE, interval), MAX_RATE)

\* validateInput: the change handler of the interval input.  A render in
\* which intervalRate has changed makes the interval effect due.
validateInput(text) ==
    /\ phase = "running"
    /\ pc = "idle"
    /\ LET interval == Number(text) IN
        /\ intervalRate' = IF ~isNaN(interval) THEN clamp(interval) ELSE intervalRate
        /\ last' = [NoLast EXCEPT !.op = "validateInput", !.res0 = interval]
    /\ due' = (due \/ intervalRate' # intervalRate)
    /\ UNCHANGED <<things, tick, thing, pc, pending, queue, cur, ctrls, adds,
                   startType, startWater, runs, born, absorbed, condensed, loaded, origin,
                   saved, phase, firings, loadResult, written, timers, timer>>

\* Any text is typed into the interval input
ValidateInput == \E text \in Texts : validateInput(text)

\* The texts typed while the timer runs: a number below the range, one in
\* it, the rate the input shows already, and a text that is no number
Typed == {<<"5">>, <<"5", "0">>, <<"1", "0", "0", "0">>, <<"x">>}

TypeRate == \E text \in Typed : validateInput(text)

\* setInterval gives an id that no timer scheduled at that moment has
Fresh(scheduled) ==
    CHOOSE n \in 1..(Cardinality(scheduled) + 1) : n \notin scheduled

\* clearInterval(id)
clearInterval(scheduled, id) == scheduled \ {id}

\* an interval effect whose cleanup clears nothing
runEffectNoCleanup(scheduled, held) ==
    [timers |-> scheduled \cup {Fresh(scheduled)}, timer |-> Fresh(scheduled)]

\* The interval effect runs again: the cleanup of its last run, if it has
\* run before, clears the interval of that run; then setInterval schedules
\* a new one, which the new cleanup holds
runEffect(scheduled, held) ==
    LET cleared == IF held # 0 THEN clearInterval(scheduled, held) ELSE scheduled
    IN  [timers |-> cleared \cup {Fresh(scheduled)}, timer |-> Fresh(scheduled)]

\* The interval effect, after the mount and after every render in which
\* intervalRate has changed
IntervalEffect ==
    /\ phase = "running"
    /\ pc = "idle"
    /\ due
    /\ timers' = runEffect(timers, timer).timers
    /\ timer' = runEffect(timers, timer).timer
    /\ due' = FALSE
    /\ UNCHANGED <<things, tick, thing, pc, pending, queue, cur, ctrls, adds,
                   startType, startWater, runs, born, absorbed, condensed, last,
                   loaded, origin, saved, intervalRate, phase, firings, loadResult,
                   written>>

\* Sim unmounts: the cleanup of the interval effect runs
unmount(scheduled, held) ==
    IF held # 0 THEN clearInterval(scheduled, held) ELSE scheduled

Unmount ==
    /\ phase = "running"
    /\ pc = "idle"
    /\ phase' = "unmounted"
    /\ timers' = unmount(timers, timer)
    /\ due' = FALSE
    /\ UNCHANGED <<things, tick, thing, pc, pending, queue, cur, ctrls, adds,
                   startType, startWater, runs, born, absorbed, condensed, last,
                   loaded, origin, saved, intervalRate, firings, loadResult, written,
                   timer>>

----------------------------------------------------------------------------

Next ==
    \/ AddThing
    \/ RemoveThing
    \/ RoundTrip
    \/ TickStart
    \/ VisitCell
    \/ NextThing
    \/ AbsorbWater
    \/ RootDown
    \/ CondenseWater
    \/ Rain
    \/ TickEnd

Spec == Init /\ [][Next]_vars

NextCloud ==
    \/ DriverTick
    \/ VisitCell
    \/ NextThing
    \/ CondenseWater
    \/ Rain
    \/ TimerEnd

SpecCloud == InitCloud /\ [][NextCloud]_vars

NextHost ==
    \/ LoadEffect
    \/ IntervalEffect
    \/ ResetSim
    \/ Unmount
    \/ DriverTick
    \/ VisitCell
    \/ NextThing
    \/ AbsorbWater
    \/ RootDown
    \/ CondenseWater
    \/ Rain
    \/ TimerEnd

SpecHost == InitHost /\ [][NextHost]_vars

NextRate ==
    \/ LoadEffect
    \/ ValidateInput

SpecRate == InitHost /\ [][NextRate]_vars

\* Sim from its mount to its unmount, with the interval input in use and
\* the timer firing a few times
TimerFires ==
    /\ firings < MaxDriverFirings
    /\ DriverTick

NextDriver ==
    \/ LoadEffect
    \/ IntervalEffect
    \/ TypeRate
    \/ ResetSim
    \/ Unmount
    \/ TimerFires
    \/ VisitCell
    \/ NextThing
    \/ AbsorbWater
    \/ RootDown
    \/ CondenseWater
    \/ Rain
    \/ TimerEnd

SpecDriver == InitHost /\ [][NextDriver]_vars

\* The seeds a single-seed scenario starts from: seed() put at (0, 0) or at
\* (2, -1), with a Water counter
SeedPalette ==
    {WithRes(seed(pos), n) : pos \in {<<0, 0>>, <<2, -1>>}, n \in 0..MaxSeedWater}

\* The world of one seed, alone or with a root at (0, 1), at tick 0, under
\* the timer
InitSeed ==
    /\ \E s \in SeedPalette, rest \in {<<>>, <<root(<<0, 1>>)>>} :
        /\ thing = <<s>> \o rest
        /\ things = reduce(1, <<s>> \o rest, EmptyMap)
        /\ origin = s
        /\ adds = 1 + Len(rest)
    /\ tick = 0
    /\ pc = "idle"
    /\ pending = {}
    /\ queue = <<>>
    /\ cur = 0
    /\ ctrls = <<>>
    /\ startType = <<>>
    /\ startWater = <<>>
    /\ runs = <<>>
    /\ born = {}
    /\ absorbed = <<>>
    /\ condensed = <<>>
    /\ last = NoLast
    /\ loaded = NoLoad
    /\ saved = NoItem
    /\ intervalRate = DEFAULT_RATE
    /\ phase = "running"
    /\ firings = 0
    /\ loadResult = "none"
    /\ written = FALSE
    /\ timers = {1}
    /\ timer = 1
    /\ due = FALSE

NextSeed ==
    \/ DriverTick
    \/ VisitCell
    \/ NextThing
    \/ AbsorbWater
    \/ RootDown
    \/ TimerEnd

SpecSeed == InitSeed /\ [][NextSeed]_vars

----------------------------------------------------------------------------
(* Properties *)

RECURSIVE SumWater(_, _)
SumWater(ids, heap) ==
    IF ids = {} THEN 0
    ELSE LET id == CHOOSE x \in ids : TRUE
         IN  getRes(heap[id], Water) + SumWater(ids \ {id}, heap)

\* Water entities in the store plus the Water counters of the stored things
WaterTotal(m, heap) == WaterCount(m, heap) + SumWater(InStore(m), heap)

StartConsumers == {id \in DOMAIN startType : startType[id] \in {Seed, Root}}
StartWaters == {id \in DOMAIN startType : startType[id] = Water}
StartActors == {id \in DOMAIN startType : FixedControls(startType[id]) # <<>>}

C2_EveryControlOnce ==
    /\ \A id \in DOMAIN startType :
          /\ Len(runs[id]) <= Len(FixedControls(startType[id]))
          /\ runs[id] = SubSeq(FixedControls(startType[id]), 1, Len(runs[id]))
    /\ pc = "idle" =>
          \A id \in DOMAIN startType : runs[id] = FixedControls(startType[id])

\* A tick is over in which two things or more had controls to run, a Water was
\* absorbed out of a cell that was deleted with it, and the cell was made again
\* for a thing created in the tick
C2_Witness ==
    /\ pc = "idle"
    /\ Cardinality(StartActors) >= 2
    /\ \E i \in DOMAIN absorbed :
          \A w \in absorbed[i].gone :
              /\ thing[w].pos \in DOMAIN things
              /\ Range(things[thing[w].pos]) \subseteq born

\* C3 (as claimed), for a thing that a control inserts into a cell which holds
\* a thing from the start of the tick: none of its controls is invoked in the
\* tick that created it.
C3_NewThingsWaitForNextTick ==
    \A id \in born :
        ( /\ id \in DOMAIN runs
          /\ thing[id].pos \in DOMAIN things
          /\ Range(things[thing[id].pos]) \cap DOMAIN startType # {} )
        => runs[id] = <<>>

\* C4: a Water removed by a control is gone for the rest of the tick, so each
\* absorption takes a different Water, for a different absorber, and adds 1;
\* and when a tick starts with fewer Water things than Seeds and Roots, all
\* within reach of each other and no RainCloud to add Water, exactly as many
\* counters as there were Water things are incremented by the time it ends.
C4_AbsorbedOnce ==
    /\ \A i \in DOMAIN absorbed :
          /\ absorbed[i].gain = 1
          /\ Cardinality(absorbed[i].gone) = 1
          /\ \A w \in absorbed[i].gone :
                thing[w].type = Water /\ w \notin InStore(things)
    /\ \A i, j \in DOMAIN absorbed :
          i # j => /\ absorbed[i].gone \cap absorbed[j].gone = {}
                   /\ absorbed[i].by # absorbed[j].by
    /\ ( /\ pc = "idle"
         /\ Cardinality(StartWaters) < Cardinality(StartConsumers)
         /\ \A c \in StartConsumers, w \in StartWaters :
               Dist(thing[c].pos, thing[w].pos) <= DISTANCE
         /\ \A id \in DOMAIN startType : startType[id] # RainCloud )
       => Len(absorbed) = Cardinality(StartWaters)

\* Two consumers had one Water between them, and one of them got it
C4_Witness ==
    /\ pc = "idle"
    /\ Cardinality(StartConsumers) = 2
    /\ Cardinality(StartWaters) = 1
    /\ \A id \in DOMAIN startType : startType[id] # RainCloud
    /\ Len(absorbed) = 1

\* C5: an absorbWater invocation either changes nothing, or takes exactly one
\* Water thing out of the store and adds exactly 1 to the caller's Water
\* counter, touching no other thing; so it never increases the number of
\* Water things plus the Water counters.
C5_AbsorbIsOneForOne ==
    [][Invoking("absorbWater") =>
        \/ things' = things /\ thing' = thing
        \/ /\ \E w \in InStore(things) :
                  /\ thing[w].type = Water
                  /\ InStore(things') = InStore(things) \ {w}
            /\ WaterCount(things', thing') = WaterCount(things, thing) - 1
            /\ getRes(thing'[cur], Water) = getRes(thing[cur], Water) + 1
            /\ DOMAIN thing' = DOMAIN thing
            /\ \A id \in (DOMAIN thing) \ {cur} : thing'[id] = thing[id]
            /\ WaterTotal(things', thing') <= WaterTotal(things, thing)]_vars

\* absorbWater has just taken a Water: one Water thing fewer, one unit more
C5_Witness ==
    /\ last.op = "absorbWater"
    /\ WaterCount(things, thing) = last.waters0 - 1
    /\ getRes(thing[last.self], Water) = last.res0 + 1

\* C6: a Cloud becomes a RainCloud in exactly those steps that are a
\* condenseWater invocation on it leaving its Water counter above 10; no other
\* step changes a Cloud into a RainCloud, and a condenseWater that leaves 10 or
\* less leaves it a Cloud.
C6_CloudThreshold ==
    [][pc = "iter" =>
        \A id \in DOMAIN thing :
            thing[id].type = Cloud =>
                ( thing'[id].type = RainCloud
                  <=> ( /\ Invoking("condenseWater")
                        /\ id = cur
                        /\ getRes(thing'[id], Water) > 10 ) )]_vars

\* condenseWater has just taken a Cloud from 6 to 11 and made it a RainCloud
C6_Witness ==
    /\ last.op = "condenseWater"
    /\ last.res0 = 6
    /\ getRes(thing[last.self], Water) = 11
    /\ thing[last.self].type = RainCloud

\* C7: a rain invocation on a RainCloud holding w > 0 Water makes min(4, w) new
\* Water things, all at the RainCloud's position and all put in its cell,
\* lowers the counter by as many, and leaves the type RainCloud if the counter
\* is still positive, Cloud if it is 0.
C7_RainBoundedDrops ==
    [][(Invoking("rain") /\ getRes(thing[cur], Water) > 0) =>
        LET w == getRes(thing[cur], Water)
            drops == IF w < 4 THEN w ELSE 4
            pos == thing[cur].pos
            new == (DOMAIN thing') \ (DOMAIN thing)
        IN  /\ Cardinality(new) = drops
            /\ \A id \in new : thing'[id].type = Water /\ thing'[id].pos = pos
            /\ new \subseteq Range(things'[pos])
            /\ InStore(things') = InStore(things) \cup new
            /\ Len(things'[pos]) = Len(things[pos]) + drops
            /\ getRes(thing'[cur], Water) = w - drops
            /\ thing'[cur].type = IF w - drops > 0 THEN RainCloud ELSE Cloud]_vars

\* rain has just run on a RainCloud holding 6: 4 drops, 2 left, still RainCloud
C7_Witness ==
    /\ last.op = "rain"
    /\ last.res0 = 6
    /\ getRes(thing[last.self], Water) = 2
    /\ thing[last.self].type = RainCloud
    /\ WaterCount(things, thing) = last.waters0 + 4

\* The scenario of one Cloud at (0, -1) with no Water, from tick 0
FromEmptyCloud ==
    /\ origin.type = Cloud
    /\ getRes(origin, Water) = 0
    /\ origin.pos = <<0, -1>>

\* C8: in that scenario, driven one tick at a time, the Cloud is a Cloud after
\* each of ticks 1..8 and a RainCloud after tick 9.
C8_RainCloudAtTickNine ==
    (FromEmptyCloud /\ pc = "idle") =>
        /\ tick \in 1..8 => thing[1].type = Cloud
        /\ tick = 9 => thing[1].type = RainCloud

\* Tick 9 of the scenario is over: a RainCloud holding 15
C8_Witness ==
    /\ FromEmptyCloud
    /\ pc = "idle"
    /\ tick = 9
    /\ thing[1].type = RainCloud
    /\ getRes(thing[1], Water) = 15

\* C9 (as claimed): in that scenario, after 33 ticks the Water counter has been
\* incremented 11 times by the every-3rd-tick rule, at ticks 3, 6, ..., 33.
C9_ElevenIncrements ==
    (FromEmptyCloud /\ pc = "idle" /\ tick = 33) =>
        condensed = [i \in 1..11 |-> 3 * i]

\* C9 (amended): after 33 ticks the counter has been incremented 9 times, at
\* ticks 3, 6, 9, 15, 18, 21, 27, 30 and 33, 45 units in all (those still in
\* the counter plus those rained down as Water things); at ticks 12 and 24 the
\* thing is a RainCloud, which does not condense.
C9_NineIncrements ==
    (FromEmptyCloud /\ pc = "idle" /\ tick = 33) =>
        /\ condensed = <<3, 6, 9, 15, 18, 21, 27, 30, 33>>
        /\ getRes(thing[1], Water) + WaterCount(things, thing) = 45

\* Tick 33 of the scenario is over
C9_Witness ==
    /\ FromEmptyCloud
    /\ pc = "idle"
    /\ tick = 33
    /\ Len(condensed) = 9
    /\ thing[1].type = RainCloud

\* C10: the world that comes back from serializeState and deserializeState
\* has the tick of the world that went in and the same things, by type,
\* position and resources, in the same cells.
C10_RoundTrip ==
    last.op = "roundTrip" =>
        /\ tick = loaded.tick
        /\ View(things, thing) = loaded.view

\* A world that ticks have changed went through the round trip: two cells or
\* more, a thing with a Water count and a thing with no resource key
C10_Witness ==
    /\ last.op = "roundTrip"
    /\ tick > 0
    /\ Cardinality(DOMAIN things) >= 2
    /\ \E id \in InStore(things) : getRes(thing[id], Water) > 0
    /\ \E id \in InStore(things) : thing[id].resources = NoRes
    /\ \E id \in DOMAIN thing : thing[id].type = Root

\* How many things of a type a list holds
CountType(list, heap, type) ==
    Cardinality({i \in DOMAIN list : heap[list[i]].type = type})

\* The world emptyState makes, told by its content: tick 0, five Water and
\* one Seed at (0, 0), one Cloud at (0, -1)
IsDefaultWorld(t, m, heap) ==
    /\ t = 0
    /\ DOMAIN m = {<<0, 0>>, <<0, -1>>}
    /\ Len(m[<<0, 0>>]) = 6
    /\ CountType(m[<<0, 0>>], heap, Water) = 5
    /\ CountType(m[<<0, 0>>], heap, Seed) = 1
    /\ Len(m[<<0, -1>>]) = 1
    /\ CountType(m[<<0, -1>>], heap, Cloud) = 1

\* C11 (as claimed): a world is loaded only from a snapshot that has its tick
\* and its things; every other text makes deserializeState fail.  Stated while
\* the item is still the one Sim found when it mounted.
C11_InvalidSnapshotsFail ==
    (loadResult = "loaded" /\ ~written) =>
        (saved.kind = "json" /\ saved.fields = {"tick", "things"})

\* C12: when the item is a text that is no JSON, the load effect ends without
\* an error reaching Sim and leaves the world emptyState made: tick 0, five
\* Water and one Seed at (0, 0), one Cloud at (0, -1); and after a failed load
\* the timer advances that world, so its tick is the number of firings.
C12_FallbackKeepsDefault ==
    [][ /\ (phase = "mount" /\ saved = Garbage) =>
              /\ phase' = "running"
              /\ loadResult' = "failed"
              /\ IsDefaultWorld(tick', things', thing')
        /\ (loadResult' = "failed" /\ pc' = "idle") => tick' = firings' ]_vars

\* The load failed, and the timer has since taken the default world through
\* three ticks: the Seed has absorbed Water
C12_Witness ==
    /\ loadResult = "failed"
    /\ saved = Garbage
    /\ pc = "idle"
    /\ tick = 3
    /\ firings = 3
    /\ \E id \in InStore(things) :
          thing[id].type = Seed /\ getRes(thing[id], Water) > 0

\* C14: removeThing on a thing that is not in the store - its cell is not
\* there, or its cell is there and does not hold it - leaves every cell and
\* every list of the store as it was.
C14_RemoveAbsentIsNoOp ==
    [][(last'.op = "removeThing" /\ last'.self \notin InStore(things)) =>
          things' = things]_vars

\* removeThing has just been called on a Water that was not in the store any
\* more, while its cell still holds another thing: no Water fewer than before
C14_Witness ==
    /\ last.op = "removeThing"
    /\ thing[last.self].type = Water
    /\ last.self \notin InStore(things)
    /\ WaterCount(things, thing) = last.waters0
    /\ thing[last.self].pos \in DOMAIN things

\* C15: the world emptyState makes has tick 0; a timer firing, which calls
\* advanceSim with delta 1, adds exactly 1 to the tick of the world and hands
\* on the same store; nothing else in the tick changes the tick; so after n
\* firings since emptyState made the world (at mount or by resetSim) the tick
\* is n.
C15_TickCountsFirings ==
    [][ /\ (pc = "idle" /\ pc' = "iter" /\ tick >= 0) =>
              (tick' = tick + 1 /\ things' = things /\ thing' = thing)
        /\ pc = "iter" => tick' = tick
        /\ loadResult' = "reset" /\ loadResult # "reset" => tick' = 0
        /\ (loadResult' \in {"none", "absent", "failed", "reset"} /\ pc' = "idle") =>
              tick' = firings' ]_vars

\* A world that ran long enough to be saved was reset, and the timer has fired
\* twice since: tick 2
C15_Witness ==
    /\ pc = "idle"
    /\ loadResult = "reset"
    /\ written
    /\ firings = 2
    /\ tick = 2

\* C16 (as claimed): a rain invocation on a RainCloud whose Water count reads
\* as 0, the key being absent or present with value 0, makes no drop and turns
\* the thing into a Cloud.
C16_AbsentWaterRainsToCloud ==
    [][(Invoking("rain") /\ getRes(thing[cur], Water) = 0) =>
          /\ DOMAIN thing' = DOMAIN thing
          /\ things' = things
          /\ thing'[cur].type = Cloud]_vars

\* No cell within the query distance of the thing holds a Water
NoWaterNear(id) ==
    \A k \in DOMAIN things :
        Dist(k, thing[id].pos) <= DISTANCE =>
            \A i \in DOMAIN things[k] : thing[things[k][i]].type # Water

\* C17: an absorbWater invocation with no Water in any cell the query can
\* reach, and a rootDown invocation on a thing holding 2 Water or less, change
\* neither the store nor any thing: the caller keeps its type, its position
\* and its resources.
C17_NoTargetNoChange ==
    [][ /\ (Invoking("absorbWater") /\ NoWaterNear(cur)) =>
              (things' = things /\ thing' = thing)
        /\ (Invoking("rootDown") /\ getRes(thing[cur], Water) <= 2) =>
              (things' = things /\ thing' = thing) ]_vars

\* A Seed holding exactly 2 Water, in a world without Water, has had both its
\* controls invoked: nothing was absorbed, no root was made, it still holds 2
C17_Witness ==
    /\ last.op = "rootDown"
    /\ last.res0 = 2
    /\ last.waters0 = 0
    /\ runs[last.self] = <<"absorbWater", "rootDown">>
    /\ absorbed = <<>>
    /\ born = {}
    /\ thing[last.self].type = Seed
    /\ getRes(thing[last.self], Water) = 2

\* C18: a step that changes the type of a thing is a condenseWater or a rain
\* invocation on it, and the change of type takes nothing from its resources:
\* after condenseWater the Water count is the count before plus what this
\* invocation gathered (5 on a tick that is a multiple of 3, else 0), after
\* rain it is the count before less the drops made, the key still there with
\* 0; the thing keeps its position and stays in the list of its cell.
C18_TransitionsKeepResources ==
    [][\A id \in DOMAIN thing :
          thing'[id].type # thing[id].type =>
              /\ id = cur
              /\ Invoking("condenseWater") \/ Invoking("rain")
              /\ thing'[id].pos = thing[id].pos
              /\ id \in Range(things[thing[id].pos])
              /\ id \in Range(things'[thing[id].pos])
              /\ DOMAIN thing'[id].resources = {Water}
              /\ Invoking("condenseWater") =>
                    /\ thing'[id].type = RainCloud
                    /\ thing'[id].resources[Water] =
                          getRes(thing[id], Water) + (IF tick % 3 = 0 THEN 5 ELSE 0)
                    /\ things' = things
              /\ Invoking("rain") =>
                    /\ thing'[id].type = Cloud
                    /\ thing'[id].resources[Water] = 0
                    /\ Cardinality((DOMAIN thing') \ (DOMAIN thing)) =
                          getRes(thing[id], Water)]_vars

\* rain has just let the last 3 units of a RainCloud fall and turned it into a
\* Cloud that still has its Water key, at 0
C18_Witness ==
    /\ last.op = "rain"
    /\ last.res0 = 3
    /\ thing[last.self].type = Cloud
    /\ thing[last.self].resources = OnlyWater(0)
    /\ WaterCount(things, thing) = last.waters0 + 3
    /\ last.self \in Range(things[thing[last.self].pos])

\* C19: the interval is 1000 when Sim mounts and is always within 10..10000;
\* a typed text that reads as a number sets it to that number brought into
\* 10..10000 (10 below 10, 10000 above 10000, the number itself between), and
\* a text that reads as no number (NaN) leaves it as it was.
C19_IntervalClamped ==
    /\ intervalRate = 1000
    /\ [](intervalRate \in 10..10000)
    /\ [][last'.op = "validateInput" =>
            LET interval == last'.res0 IN
            IF interval >= 0
            THEN /\ interval < 10 => intervalRate' = 10
                 /\ interval > 10000 => intervalRate' = 10000
                 /\ interval \in 10..10000 => intervalRate' = interval
            ELSE intervalRate' = intervalRate]_vars

\* "5" has just been typed: the interval is 10
C19_Witness ==
    /\ last.op = "validateInput"
    /\ last.res0 = 5
    /\ intervalRate = 10

\* What a snapshot text says the world holds: cell by cell, the things by value
SavedView(text) ==
    [k \in {text.things[i][1] : i \in DOMAIN text.things} |->
        LET i == CHOOSE n \in DOMAIN text.things : text.things[n][1] = k
        IN  text.things[i][2]]

\* C20: the timer handler writes the item exactly when the advanceSim call it
\* made left the tick a multiple of 10; what it writes has that tick and, cell
\* by cell, the things of the world as they are after that tick; no other step
\* changes the item; so an item the host wrote has a tick that is a multiple
\* of 10.
C20_SaveCadence ==
    [][ /\ (pc = "iter" /\ pc' = "idle" /\ tick >= 0 /\ tick % 10 = 0) =>
              /\ written'
              /\ saved'.kind = "json"
              /\ saved'.fields = {"tick", "things"}
              /\ saved'.tick = tick'
              /\ Len(saved'.things) = Cardinality(DOMAIN things')
              /\ SavedView(saved') = View(things', thing')
        /\ (saved' # saved \/ written' # written) =>
              (pc = "iter" /\ pc' = "idle" /\ tick >= 0 /\ tick % 10 = 0)
        /\ written' => (saved'.tick >= 0 /\ saved'.tick % 10 = 0) ]_vars

\* The item was written after tick 10 and the world is two ticks on: the item
\* still holds tick 10 and a world that is no longer the current one
C20_Witness ==
    /\ written
    /\ pc = "idle"
    /\ tick = 12
    /\ saved.tick = 10
    /\ SavedView(saved) # View(things, thing)

\* The Seeds of the store that started the tick with exactly 2 Water
SeedsAtTwo ==
    {id \in DOMAIN startType : startType[id] = Seed /\ startWater[id] = 2}

AbsorbedBy(id) == \E i \in DOMAIN absorbed : absorbed[i].by = id

\* C21: the controls of a Seed run in the order of its list, absorbWater
\* first and rootDown second.  For a Seed that started the tick with 2 Water:
\* absorbWater is invoked before any other control of it, and takes the count
\* to 3 when a Water is in reach at that moment and leaves it at 2 when none
\* is; rootDown is invoked right after it, and when the Seed has absorbed it
\* makes exactly one new Root, in the cell below, and leaves the Seed 1 Water,
\* and when the Seed has not absorbed it changes nothing; so the tick ends
\* with the Seed at 1 Water in the first case and at 2 in the second.
C21_AbsorbBeforeRoot ==
    [][ /\ (Invoking("absorbWater") /\ cur \in SeedsAtTwo) =>
              /\ runs[cur] = <<>>
              /\ ctrls = <<"absorbWater", "rootDown">>
              /\ getRes(thing'[cur], Water) = IF NoWaterNear(cur) THEN 2 ELSE 3
              /\ AbsorbedBy(cur)' = ~NoWaterNear(cur)
        /\ (Invoking("rootDown") /\ cur \in SeedsAtTwo) =>
              /\ runs[cur] = <<"absorbWater">>
              /\ IF AbsorbedBy(cur)
                 THEN /\ getRes(thing'[cur], Water) = 1
                      /\ DOMAIN thing' = (DOMAIN thing) \cup {NewId(thing)}
                      /\ thing'[NewId(thing)] =
                            root(<<thing[cur].pos[1], thing[cur].pos[2] + 1>>)
                      /\ InStore(things') = InStore(things) \cup {NewId(thing)}
                 ELSE thing' = thing /\ things' = things
        /\ (pc = "iter" /\ pc' = "idle") =>
              \A id \in SeedsAtTwo :
                  /\ runs[id] = <<"absorbWater", "rootDown">>
                  /\ getRes(thing[id], Water) = IF AbsorbedBy(id) THEN 1 ELSE 2 ]_vars

\* A tick is over in which a Seed that started with 2 Water has absorbed a
\* Water and made a Root in the cell below: it holds 1 Water
C21_Witness ==
    /\ pc = "idle"
    /\ \E id \in SeedsAtTwo :
          /\ AbsorbedBy(id)
          /\ getRes(thing[id], Water) = 1
          /\ \E r \in born :
                /\ thing[r] = root(<<thing[id].pos[1], thing[id].pos[2] + 1>>)
                /\ r \in InStore(things)

\* C22: rootDown on a thing at (x, y) holding w Water.  With w > 2 the heap
\* gains exactly one thing, a Root without resources at (x, y + 1), which is
\* in the list of that cell and is the only thing the store gains; the caller
\* holds w - 2 Water and keeps its type and its position; no other thing and
\* no other cell changes.  With w <= 2 neither the store nor any thing changes.
C22_RootDown ==
    [][ Invoking("rootDown") =>
          LET w == getRes(thing[cur], Water)
              n == NewId(thing)
              below == <<thing[cur].pos[1], thing[cur].pos[2] + 1>>
          IN  IF w > 2
              THEN /\ DOMAIN thing' = (DOMAIN thing) \cup {n}
                   /\ thing'[n] = [type |-> Root, pos |-> below, resources |-> NoRes]
                   /\ InStore(things') = InStore(things) \cup {n}
                   /\ n \in Range(things'[below])
                   /\ thing'[cur].resources = OnlyWater(w - 2)
                   /\ thing'[cur].type = thing[cur].type
                   /\ thing'[cur].pos = thing[cur].pos
                   /\ \A id \in (DOMAIN thing) \ {cur} : thing'[id] = thing[id]
                   /\ \A k \in (DOMAIN things) \ {below} : things'[k] = things[k]
              ELSE thing' = thing /\ things' = things ]_vars

\* rootDown has run on a Seed at (2, -1) that held 5 Water: it holds 3, and a
\* Root made in this tick is in the cell (2, 0)
C22_Witness ==
    /\ last.op = "rootDown"
    /\ last.res0 = 5
    /\ thing[last.self].type = Seed
    /\ thing[last.self].pos = <<2, -1>>
    /\ getRes(thing[last.self], Water) = 3
    /\ \E r \in born : thing[r] = root(<<2, 0>>) /\ r \in Range(things[<<2, 0>>])

\* The things that take Water from the store
Consumers(m, heap) == {id \in InStore(m) : heap[id].type \in {Seed, Root}}

\* C23: locality of absorption.  A step of a tick that takes a thing out of
\* the store is an absorbWater invocation of a Seed or a Root, takes out one
\* thing only, and that thing is a Water whose cell is at most 2 cells away,
\* in x and in y, from the cell of the caller (the caller's own cell
\* included); so a Water that is more than 2 cells away from every Seed and
\* every Root of the store is still there after the step.
C23_AbsorbsNearWaterOnly ==
    [][ pc = "iter" =>
          /\ \A id \in InStore(things) \ InStore(things') :
                /\ Invoking("absorbWater")
                /\ thing[cur].type \in {Seed, Root}
                /\ thing[id].type = Water
                /\ Dist(thing[id].pos, thing[cur].pos) <= 2
                /\ InStore(things) \ InStore(things') = {id}
          /\ \A id \in InStore(things) :
                ( /\ thing[id].type = Water
                  /\ \A c \in Consumers(things, thing) :
                        Dist(thing[id].pos, thing[c].pos) > 2 )
                => id \in InStore(things') ]_vars

\* A Root at (0, 1) has just absorbed the Water at (0, 3), two cells below it,
\* while the Seed at (0, 0), three cells above that Water, is in the store
C23_Witness ==
    /\ last.op = "absorbWater"
    /\ thing[last.self].type = Root
    /\ thing[last.self].pos = <<0, 1>>
    /\ absorbed # <<>>
    /\ absorbed[Len(absorbed)].by = last.self
    /\ \A id \in absorbed[Len(absorbed)].gone : thing[id].pos = <<0, 3>>
    /\ \E s \in InStore(things) : thing[s].type = Seed /\ thing[s].pos = <<0, 0>>

\* C24: resource counts never go negative.  The worlds start with every
\* count at 0 or more; in every state, mid-tick states included, every
\* resource count of every thing is an integer and is 0 or more.
C24_CountsNeverNegative ==
    \A id \in DOMAIN thing :
        \A r \in DOMAIN thing[id].resources :
            thing[id].resources[r] \in Nat

\* A tick is over in which a RainCloud that held 2 Water has rained down to 0,
\* stopping after 2 of its 4 drops, and a Seed has spent 2 of its 3 Water on a
\* Root
C24_Witness ==
    /\ pc = "idle"
    /\ \E c \in DOMAIN startType :
          /\ startType[c] = RainCloud
          /\ startWater[c] = 2
          /\ runs[c] = <<"rain">>
          /\ thing[c].resources = OnlyWater(0)
    /\ \E s \in SeedsAtTwo :
          /\ runs[s] = <<"absorbWater", "rootDown">>
          /\ thing[s].resources = OnlyWater(1)

\* The run started from the world emptyState makes: the cloud of that world
\* alone, or the whole world in a Sim that loaded no snapshot
FromDefaultWorld ==
    \/ FromEmptyCloud
    \/ origin = Harness /\ loadResult \in {"absent", "failed", "reset"}

\* C25: type and Water stay coupled at tick boundaries.  Starting from the
\* default world, after every completed advanceSim call every Cloud holds at
\* most 10 Water and every RainCloud holds at least 1, and in no state,
\* mid-tick states included, does a Cloud or a RainCloud hold more than 15.
C25_TypeAndWaterCoupled ==
    FromDefaultWorld =>
        \A id \in InStore(things) :
            /\ (pc = "idle" /\ thing[id].type = Cloud) =>
                  getRes(thing[id], Water) <= 10
            /\ (pc = "idle" /\ thing[id].type = RainCloud) =>
                  getRes(thing[id], Water) >= 1
            /\ thing[id].type \in {Cloud, RainCloud} =>
                  getRes(thing[id], Water) <= 15

\* The cloud of the default world after tick 21, in its second round: a
\* RainCloud again, holding 15 Water
C25_Witness ==
    /\ FromEmptyCloud
    /\ pc = "idle"
    /\ tick = 21
    /\ thing[1].type = RainCloud
    /\ getRes(thing[1], Water) = 15
    /\ WaterCount(things, thing) = 15

\* C26: a Seed never accumulates water.  When every Seed of the store held 2
\* Water or less as the tick started, every one of them holds 2 or less when
\* the advanceSim call has returned.
C26_SeedsStayAtTwo ==
    ( /\ pc = "idle"
      /\ \A id \in DOMAIN startType : startType[id] = Seed => startWater[id] <= 2 )
    => \A id \in DOMAIN startType :
          startType[id] = Seed =>
              /\ thing[id].type = Seed
              /\ getRes(thing[id], Water) <= 2

\* A tick is over whose last invocation was rootDown on a Seed that had come
\* to 3 Water: it started the tick with 2 and holds 1
C26_Witness ==
    /\ pc = "idle"
    /\ last.op = "rootDown"
    /\ last.res0 = 3
    /\ last.self \in DOMAIN startType
    /\ startType[last.self] = Seed
    /\ startWater[last.self] = 2
    /\ getRes(thing[last.self], Water) = 1

\* C27: a change of type takes effect for the choice of controls only in the
\* next tick.  The control list of a thing that was in the store as the tick
\* started is looked up once, when its turn comes and before any control of
\* it has run, and it is the list of the type the thing started the tick with; a step that changes the type of a thing
\* is the last control of its list.  So rain is only ever invoked on a thing
\* that started the tick as a RainCloud and condenseWater only on one that
\* started it as a Cloud: a Cloud that has become a RainCloud in a tick has
\* had condenseWater invoked and nothing else, and no Water was made in that
\* tick; a RainCloud that has become a Cloud in a tick has had rain invoked
\* and nothing else, and nothing was gathered in that tick; and a thing that
\* starts a tick as a RainCloud holding Water makes Water in that tick.
C27_TypeChangeActsNextTick ==
    [][ /\ (ctrls = <<>> /\ ctrls' # <<>> /\ cur' \in DOMAIN startType) =>
              /\ runs[cur'] = <<>>
              /\ thing[cur'].type = startType[cur']
              /\ ctrls' = FixedControls(startType[cur'])
        /\ Invoking("rain") => startType[cur] = RainCloud
        /\ Invoking("condenseWater") => startType[cur] = Cloud
        /\ pc = "iter" =>
              \A id \in DOMAIN thing :
                  thing'[id].type # thing[id].type => (id = cur /\ ctrls' = <<>>)
        /\ (pc = "iter" /\ pc' = "idle") =>
              \A id \in DOMAIN startType :
                  /\ (startType[id] = Cloud /\ thing[id].type = RainCloud) =>
                        (runs[id] = <<"condenseWater">> /\ born = {})
                  /\ (startType[id] = RainCloud /\ thing[id].type = Cloud) =>
                        (runs[id] = <<"rain">> /\ tick \notin Range(condensed))
                  /\ (startType[id] = RainCloud /\ startWater[id] > 0) =>
                        (runs[id] = <<"rain">> /\ born # {}) ]_vars

\* Tick 3, a multiple of 3, is over: the thing started it as a RainCloud, has
\* rained its last Water and is a Cloud, and has not gathered in this tick
C27_Witness ==
    /\ pc = "idle"
    /\ tick = 3
    /\ startType[1] = RainCloud
    /\ thing[1].type = Cloud
    /\ thing[1].resources = OnlyWater(0)
    /\ runs[1] = <<"rain">>
    /\ born # {}
    /\ condensed = <<>>

RootCount(m, heap) == Cardinality({id \in InStore(m) : heap[id].type = Root})

\* What emptyState holds: five Water things and no counter above 0
DefaultTotal == WaterTotal(emptyState.things, emptyState.thing)

\* The change a step makes to the total of Water things and Water counters
TotalChange == WaterTotal(things', thing') - WaterTotal(things, thing)

\* C28: global water accounting.  The total is the number of Water things in
\* the store plus the sum of the Water counters of the stored things.  A rain
\* invocation leaves the total as it is, the store gaining as many Water
\* things as the caller's counter loses; an absorbWater invocation leaves it
\* as it is; a condenseWater invocation adds 5 when it gathers and nothing
\* when it does not; a rootDown invocation takes 2 when it makes a Root and
\* nothing when it does not; no other step of a tick, and no start of a tick,
\* changes it.  So in a run from the default world the total is, in every
\* state, the 5 of that world plus 5 for every condensation that fired less 2
\* for every Root made.
C28_WaterAccounting ==
    /\ [][ /\ Invoking("rain") =>
                /\ TotalChange = 0
                /\ WaterCount(things', thing') - WaterCount(things, thing)
                      = getRes(thing[cur], Water) - getRes(thing'[cur], Water)
           /\ Invoking("absorbWater") => TotalChange = 0
           /\ Invoking("condenseWater") =>
                TotalChange = IF condensed' # condensed THEN 5 ELSE 0
           /\ Invoking("rootDown") =>
                TotalChange = IF RootCount(things', thing') > RootCount(things, thing)
                              THEN -2 ELSE 0
           /\ (pc = "iter" /\ ctrls = <<>>) => TotalChange = 0
           /\ (pc = "idle" /\ pc' = "iter") => TotalChange = 0 ]_vars
    /\ [](loadResult \in {"absent", "failed", "reset"} =>
            WaterTotal(things, thing)
               = DefaultTotal + 5 * Len(condensed) - 2 * RootCount(things, thing))

\* Tick 11 of a run from the default world is over: the cloud has gathered at
\* ticks 3, 6 and 9 and has rained, a Root has been made, and the total is 20
\* less 2 for every Root
C28_Witness ==
    /\ loadResult = "absent"
    /\ pc = "idle"
    /\ tick = 11
    /\ condensed = <<3, 6, 9>>
    /\ RootCount(things, thing) >= 1
    /\ KdHas(things, <<0, -1>>)
    /\ CountType(things[<<0, -1>>], thing, Water) >= 1
    /\ WaterTotal(things, thing) = 20 - 2 * RootCount(things, thing)

\* C29: single tick driver.  From the mount of Sim to its unmount, through
\* changes of the interval rate, resets and timer firings, at most one
\* interval timer is scheduled in any state; a step that schedules a timer
\* schedules one and leaves none of the earlier ones scheduled; after the
\* unmount no timer is scheduled and neither the tick nor the world changes
\* any more; and an advanceSim call starts only when none is in progress.
C29_SingleTickDriver ==
    /\ [](Cardinality(timers) <= 1)
    /\ [](phase = "unmounted" => (timers = {} /\ pc = "idle"))
    /\ [][ /\ timers' \ timers # {} =>
                (Cardinality(timers' \ timers) = 1 /\ timers' \cap timers = {})
           /\ phase = "unmounted" => UNCHANGED <<tick, things, thing, pc, phase>>
           /\ tick' # tick => pc = "idle" ]_vars

\* Sim is unmounted after the interval effect has run a second time (the
\* rate went to 50), a Reset and a timer firing: no timer is scheduled
C29_Witness ==
    /\ phase = "unmounted"
    /\ timers = {}
    /\ timer = 2
    /\ intervalRate = 50
    /\ loadResult = "reset"
    /\ tick = 1
    /\ pc = "idle"

====
